---- MODULE Spec2Model ----
(***************************************************************************)
(* Model of the tool-calling conversation loop of gcal_mcp_client.py       *)
(* (run_client and its helpers).                                           *)
(*                                                                         *)
(* Texts (Python str) are sequences of one-character strings, so that      *)
(* strip(), lower(), "\n".join() and json.loads() are computed and not     *)
(* assumed.  Python values handed to the tool peer are records tagged by   *)
(* their Python type.                                                      *)
(***************************************************************************)
EXTENDS Integers, Sequences, FiniteSets, TLC

(***************************************************************************)
(* Bounds of the model.                                                    *)
(***************************************************************************)
\* user turns (non-quit inputs) read in one session
MaxTurns == 2
\* tool requests the model emits in one response
MaxToolCalls == 2
\* tool requests the model emits in one session
MaxRequests == 5
\* the same, in the session that explores the arguments texts
MaxArgRequests == 2

(***************************************************************************)
(* Python str helpers.                                                     *)
(***************************************************************************)
\* str.isspace() on one character
IsSpace(c) == c \in {" ", "\n", "\t"}

\* str.lower() on one character (the letters the inputs use)
LowerChar(c) ==
  CASE c = "Q" -> "q"
    [] c = "U" -> "u"
    [] c = "I" -> "i"
    [] c = "T" -> "t"
    [] c = "E" -> "e"
    [] c = "X" -> "x"
    [] c = "H" -> "h"
    [] OTHER -> c

\* str.lower()
Lower(s) == [i \in 1..Len(s) |-> LowerChar(s[i])]

RECURSIVE LStrip(_)
\* str.lstrip()
LStrip(s) ==
  IF s = <<>> THEN <<>>
  ELSE IF IsSpace(Head(s)) THEN LStrip(Tail(s)) ELSE s

RECURSIVE RStrip(_)
\* str.rstrip()
RStrip(s) ==
  IF s = <<>> THEN <<>>
  ELSE IF IsSpace(s[Len(s)]) THEN RStrip(SubSeq(s, 1, Len(s) - 1)) ELSE s

\* str.strip()
Strip(s) == RStrip(LStrip(s))

\* Optional[str]: None, or a str
None == [isNone |-> TRUE]
Some(s) == [isNone |-> FALSE, text |-> s]

\* the Python idiom  (x or "")  on an Optional[str]
OrEmpty(x) == IF x.isNone THEN <<>> ELSE x.text

(***************************************************************************)
(* json.loads on a subset of JSON: objects, arrays, strings of letters,    *)
(* the digit 1, whitespace.  A value is a record tagged by its Python      *)
(* type; the parser returns [ok, val, next] with next the index after the  *)
(* value, and ok = FALSE where json.loads raises JSONDecodeError.          *)
(***************************************************************************)
PyDict(items) == [type |-> "dict", items |-> items]
PyList(elems) == [type |-> "list", elems |-> elems]
PyInt(n) == [type |-> "int", n |-> n]
PyStr(s) == [type |-> "str", s |-> s]

JsonFail == [ok |-> FALSE]
JsonOk(v, next) == [ok |-> TRUE, val |-> v, next |-> next]

IsLetter(c) == c \in {"a", "b", "d"}
IsDigit(c) == c \in {"1"}

RECURSIVE SkipWs(_, _)
\* index of the first non-whitespace character at or after i
SkipWs(s, i) ==
  IF i <= Len(s) /\ IsSpace(s[i]) THEN SkipWs(s, i + 1) ELSE i

RECURSIVE ScanString(_, _, _)
\* after an opening quote: the characters up to the closing quote
ScanString(s, i, acc) ==
  IF i > Len(s) THEN JsonFail
  ELSE IF s[i] = "\"" THEN JsonOk(PyStr(acc), i + 1)
  ELSE IF IsLetter(s[i]) THEN ScanString(s, i + 1, Append(acc, s[i]))
  ELSE JsonFail

RECURSIVE ScanDigits(_, _, _)
\* a run of digits starting at i, read as a decimal number
ScanDigits(s, i, acc) ==
  IF i <= Len(s) /\ IsDigit(s[i]) THEN ScanDigits(s, i + 1, 10 * acc + 1)
  ELSE JsonOk(PyInt(acc), i)

RECURSIVE ScanValue(_, _)
RECURSIVE ScanMembers(_, _, _)
RECURSIVE ScanElems(_, _, _)

\* after "{" or ",": one  "key" : value  member, then "," or "}"
ScanMembers(s, i0, items) ==
  LET i == SkipWs(s, i0) IN
  IF i > Len(s) \/ s[i] # "\"" THEN JsonFail
  ELSE LET k == ScanString(s, i + 1, <<>>) IN
    IF ~k.ok THEN JsonFail
    ELSE LET j == SkipWs(s, k.next) IN
      IF j > Len(s) \/ s[j] # ":" THEN JsonFail
      ELSE LET v == ScanValue(s, SkipWs(s, j + 1)) IN
        IF ~v.ok THEN JsonFail
        ELSE LET e == SkipWs(s, v.next)
                 its == {it \in items : it[1] # k.val.s} \cup {<<k.val.s, v.val>>} IN
          IF e > Len(s) THEN JsonFail
          ELSE IF s[e] = "}" THEN JsonOk(PyDict(its), e + 1)
          ELSE IF s[e] = "," THEN ScanMembers(s, e + 1, its)
          ELSE JsonFail

\* after "[" or ",": one value, then "," or "]"
ScanElems(s, i0, elems) ==
  LET v == ScanValue(s, SkipWs(s, i0)) IN
  IF ~v.ok THEN JsonFail
  ELSE LET e == SkipWs(s, v.next) IN
    IF e > Len(s) THEN JsonFail
    ELSE IF s[e] = "]" THEN JsonOk(PyList(Append(elems, v.val)), e + 1)
    ELSE IF s[e] = "," THEN ScanElems(s, e + 1, Append(elems, v.val))
    ELSE JsonFail

\* scan_once: the value that starts at index i
ScanValue(s, i) ==
  IF i > Len(s) THEN JsonFail
  ELSE IF s[i] = "\"" THEN ScanString(s, i + 1, <<>>)
  ELSE IF s[i] = "{" THEN
    (LET j == SkipWs(s, i + 1) IN
     IF j <= Len(s) /\ s[j] = "}" THEN JsonOk(PyDict({}), j + 1)
     ELSE ScanMembers(s, j, {}))
  ELSE IF s[i] = "[" THEN
    (LET j == SkipWs(s, i + 1) IN
     IF j <= Len(s) /\ s[j] = "]" THEN JsonOk(PyList(<<>>), j + 1)
     ELSE ScanElems(s, j, <<>>))
  ELSE IF IsDigit(s[i]) THEN ScanDigits(s, i, 0)
  ELSE JsonFail

\* json.loads(s): skip whitespace, one value, skip whitespace, end of text
JsonLoads(s) ==
  LET v == ScanValue(s, SkipWs(s, 1)) IN
  IF ~v.ok THEN JsonFail
  ELSE IF SkipWs(s, v.next) # Len(s) + 1 THEN JsonFail
  ELSE v

(***************************************************************************)
(* _flatten_tool_result.  A result payload is [content, isError] with      *)
(* content a sequence of blocks; a block is textual ([type |-> "text",     *)
(* text]) or opaque ([type |-> another type]).                             *)
(***************************************************************************)
TextBlock(t) == [type |-> "text", text |-> t]
OpaqueBlock(ty) == [type |-> ty]

\* str(block): the rendering of a block, never empty
StrBlock(block) ==
  IF block.type = "text" THEN <<"t", "e", "x", "t", "=">> \o block.text
  ELSE <<"t", "y", "p", "e", "=", block.type>>

RECURSIVE StrBlocks(_)
StrBlocks(content) ==
  IF content = <<>> THEN <<>>
  ELSE StrBlock(Head(content)) \o <<" ">> \o StrBlocks(Tail(content))

\* str(result): the rendering of the whole payload, never empty
StrResult(result) ==
  <<"c", "o", "n", "t", "e", "n", "t", "=", "[">> \o StrBlocks(result.content)
    \o <<"]">>

\* one entry of parts per block
Part(block) == IF block.type = "text" THEN block.text ELSE StrBlock(block)

RECURSIVE JoinBlank(_)
\* a join with a blank for separator
JoinBlank(parts) ==
  IF parts = <<>> THEN <<>>
  ELSE IF Len(parts) = 1 THEN parts[1]
  ELSE parts[1] \o <<" ">> \o JoinBlank(Tail(parts))

RECURSIVE Join(_)
\* "\n".join(parts)
Join(parts) ==
  IF parts = <<>> THEN <<>>
  ELSE IF Len(parts) = 1 THEN parts[1]
  ELSE parts[1] \o <<"\n">> \o Join(Tail(parts))

\* a flatten without the str(result) fallback
FlattenNoFallback(result) ==
  LET parts == [i \in 1..Len(result.content) |-> Part(result.content[i])]
      kept == SelectSeq(parts, LAMBDA p : p # <<>>) IN
  Join(kept)

\* _flatten_tool_result(result)
FlattenToolResult(result) ==
  LET parts == [i \in 1..Len(result.content) |-> Part(result.content[i])]
      kept == SelectSeq(parts, LAMBDA p : p # <<>>) IN
  IF parts = <<>> THEN StrResult(result) ELSE Join(kept)

(***************************************************************************)
(* run_client: the conversation driver.                                    *)
(***************************************************************************)
\* a loop over range(6)
MaxRoundsSix == 5 + 1

\* range(5): model calls per user turn
MaxRounds == 5

\* the words that end the session
QuitWords == {<<"q", "u", "i", "t">>, <<"e", "x", "i", "t">>}

\* the comparison without lower()
IsQuitCaseSensitive(u) == u \in QuitWords

\* user.lower() in {"quit", "exit"}
IsQuit(u) == Lower(u) \in QuitWords

\* the seeded system prompt
SystemMessage == [role |-> "system", content |-> <<"s", "y", "s">>]

UserMessage(u) == [role |-> "user", content |-> u]

\* the assistant message appended when the model asked for tools
AssistantMessage(m) ==
  [role |-> "assistant", content |-> OrEmpty(m.content),
   tool_calls |-> [i \in 1..Len(m.tool_calls) |->
      [id |-> m.tool_calls[i].id, type |-> m.tool_calls[i].type,
       function |-> [name |-> m.tool_calls[i].function.name,
                     arguments |-> m.tool_calls[i].function.arguments]]]]

\* a tool message correlated by the tool's name instead of the request id
ToolMessageByName(t, tool_text) ==
  [role |-> "tool", tool_call_id |-> t.function.name,
   name |-> t.function.name, content |-> tool_text]

\* the tool message appended after one call_tool
ToolMessage(t, tool_text) ==
  [role |-> "tool", tool_call_id |-> t.id, name |-> t.function.name,
   content |-> tool_text]

\* an append that keeps a window of the transcript: the system message
\* and the last three messages
AppendMessageWindow(msgs, m) ==
  IF Len(msgs) < 4 THEN Append(msgs, m)
  ELSE Append(<<msgs[1]>> \o SubSeq(msgs, Len(msgs) - 1, Len(msgs)), m)

\* messages.append(m)
AppendMessage(msgs, m) == Append(msgs, m)

\* a parse that falls back to the empty mapping
ParseArgsNoRaw(arguments) ==
  LET r == JsonLoads(IF arguments = <<>> THEN <<"{", "}">> ELSE arguments) IN
  IF r.ok THEN r.val ELSE PyDict({})

\* args for call_tool:  json.loads(arguments or "{}"), {"_raw": arguments}
\* on JSONDecodeError
ParseArgs(arguments) ==
  LET r == JsonLoads(IF arguments = <<>> THEN <<"{", "}">> ELSE arguments) IN
  IF r.ok THEN r.val ELSE PyDict({<<<<"_", "r", "a", "w">>, PyStr(arguments)>>})

\* a loop that walks tool_calls from the end
CurrentCallReversed(calls, k) == calls[Len(calls) + 1 - k]

\* the request the for loop over tool_calls handles at position k
CurrentCall(calls, k) == calls[k]

\* the answer printed untrimmed
FinalTextVerbatim(m) == OrEmpty(m.content)

\* the answer printed when the model asked for no tool (print frames it
\* with blank lines)
FinalText(m) == Strip(OrEmpty(m.content))

\* a loop without a cap
AfterRoundNoCap(r) == "model"

\* where the driver goes after the tool messages of iteration r (counted
\* from 0) are appended: continue, and the for loop ends after range(5)
AfterRound(r) == IF r + 1 < MaxRounds THEN "model" ELSE "input"

\* an exit that releases the connection only when run_client returns
ExitStackOnReturnOnly(c, how) ==
  IF c = "held" /\ how = "return" THEN "released" ELSE c

\* leaving  async with AsyncExitStack() as stack  by a return or by an
\* exception: what was entered is exited
ExitStack(c, how) == IF c = "held" THEN "released" ELSE c

(***************************************************************************)
(* The environment: what the user types, what the model answers, what the  *)
(* tool peer returns.                                                      *)
(***************************************************************************)
\* lines read by input()
Lines ==
  { <<"h", "i">>,
    <<"q", "u", "i", "t">>,
    <<"Q", "u", "I", "T">>,
    <<" ", "E", "X", "I", "T", " ">> }

ToolRequest(id, name, arguments) ==
  [id |-> id, type |-> "function",
   function |-> [name |-> name, arguments |-> arguments]]

\* {"a":1}
ArgsObject == <<"{", "\"", "a", "\"", ":", "1", "}">>
\* {bad
ArgsBad == <<"{", "b", "a", "d">>

\* the tool requests the model draws from in a session
Requests ==
  { ToolRequest("call_a", "X", ArgsObject),
    ToolRequest("call_b", "Y", ArgsBad) }

\* arguments texts: an object, a list, a number, the empty text, blanks,
\* malformed text
ArgTexts ==
  { ArgsObject, <<"[", "1", "]">>, <<"1">>, <<>>, <<" ">>, ArgsBad,
    <<"{", "}">> }

\* the tool requests of the session that explores the arguments texts
ArgRequests == { ToolRequest("call_a", "X", t) : t \in ArgTexts }

\* the final answers of the model: no content, text, text in whitespace
FinalContents == { None, Some(<<"d">>), Some(<<" ", "d", "\n">>) }

\* sequences of 1..MaxToolCalls requests of a pool
ToolCallLists(pool) ==
  UNION { [1..n -> pool] : n \in 1..MaxToolCalls }

\* the payload of a tool that succeeded
ResultOk == [content |-> <<TextBlock(<<"o", "k">>)>>, isError |-> FALSE]
\* the payload of a tool that reported an error
ResultError == [content |-> <<TextBlock(<<"e", "r", "r">>)>>, isError |-> TRUE]

\* the payloads call_tool returns in a session
Results == { ResultOk }
\* the same, in the session that explores the arguments texts
ArgResults == { ResultOk, ResultError }

VARIABLES
  pc,         \* where run_client is: "input", "model", "tool", "await",
              \* "exited" (returned), "raised" (left by an exception)
  messages,   \* the transcript
  user,       \* the stripped line last read
  round,      \* iterations of the for loop completed in this turn
  responses,  \* the model's responses of this turn; msg is the last one
  tc,         \* position of the for loop over tool_calls
  inflight,   \* positions of tool_calls whose call_tool is awaited
  peerCalls,  \* call_tool invocations of this turn, [name, args]
  printed,    \* answers printed in this turn
  exitCode,   \* exit code of the process, -1 while it runs
  turns,      \* user turns started
  requests,   \* tool requests emitted by the model
  connection, \* the tool peer connection: "none", "held", "released"
  acquired    \* times the connection was acquired

VARIABLES
  call,            \* one call of a function: [fn, arg, done, ret]
  events,          \* the events inserted into the calendar
  TASKS,           \* the task store, task id -> Task
  task_id_seq,     \* _task_id_seq
  subtask_id_seq,  \* _subtask_id_seq
  response         \* the last request to the to-do API and its answer

\* the state of run_client
driverVars == <<pc, messages, user, round, responses, tc, inflight, peerCalls,
                printed, exitCode, turns, requests, connection, acquired>>
\* the state of the calendar server and of the function calls
serverVars == <<call, events>>
\* the state of the to-do API
todoVars == <<TASKS, task_id_seq, subtask_id_seq, response>>

vars == <<driverVars, serverVars, todoVars>>

\* msg = response.choices[0].message
msg == responses[Len(responses)]
\* tool_calls = getattr(msg, "tool_calls", None)
tool_calls == IF responses = <<>> THEN <<>> ELSE msg.tool_calls
\* model calls issued in this turn
modelCalls == Len(responses)

\* no function call under way, an empty calendar
ServerIdle ==
  /\ call = [fn |-> "none"]
  /\ events = <<>>

\* the to-do API after import: empty store, both counters 0
TodoEmpty ==
  /\ TASKS = <<>>
  /\ task_id_seq = 0
  /\ subtask_id_seq = 0
  /\ response = [op |-> "none"]

\* run_client at its first prompt: the connection is held, the tools are
\* discovered, the transcript is seeded
DriverAtPrompt ==
  /\ pc = "input"
  /\ messages = <<SystemMessage>>
  /\ user = <<>>
  /\ round = 0
  /\ responses = <<>>
  /\ tc = 0
  /\ inflight = {}
  /\ peerCalls = <<>>
  /\ printed = <<>>
  /\ exitCode = -1
  /\ turns = 0
  /\ requests = 0
  /\ connection = "held"
  /\ acquired = 1

Init ==
  /\ DriverAtPrompt
  /\ ServerIdle
  /\ TodoEmpty

\* run_client when it is called: nothing acquired, no transcript yet
InitSession ==
  /\ pc = "start"
  /\ messages = <<>>
  /\ user = <<>>
  /\ round = 0
  /\ responses = <<>>
  /\ tc = 0
  /\ inflight = {}
  /\ peerCalls = <<>>
  /\ printed = <<>>
  /\ exitCode = -1
  /\ turns = 0
  /\ requests = 0
  /\ connection = "none"
  /\ acquired = 0
  /\ ServerIdle
  /\ TodoEmpty

\* enter_async_context(stdio_client(...)): the server process is spawned
OpenConnection ==
  /\ pc = "start"
  /\ connection' = "held"
  /\ acquired' = acquired + 1
  /\ pc' = "discover"
  /\ UNCHANGED <<messages, user, round, responses, tc, inflight, peerCalls,
                 printed, exitCode, turns, requests>>
  /\ UNCHANGED <<serverVars, todoVars>>

\* the server process cannot be spawned: nothing was acquired
OpenRaises ==
  /\ pc = "start"
  /\ pc' = "raised"
  /\ exitCode' = 1
  /\ UNCHANGED <<messages, user, round, responses, tc, inflight, peerCalls,
                 printed, turns, requests, connection, acquired>>
  /\ UNCHANGED <<serverVars, todoVars>>

\* ClientSession, initialize, list_tools, the conversion, the seeded
\* transcript
Discover ==
  /\ pc = "discover"
  /\ messages' = <<SystemMessage>>
  /\ pc' = "input"
  /\ UNCHANGED <<user, round, responses, tc, inflight, peerCalls, printed,
                 exitCode, turns, requests, connection, acquired>>
  /\ UNCHANGED <<serverVars, todoVars>>

\* initialize or list_tools raises: the exception leaves the async with
DiscoverRaises ==
  /\ pc = "discover"
  /\ pc' = "raised"
  /\ exitCode' = 1
  /\ connection' = ExitStack(connection, "raise")
  /\ UNCHANGED <<messages, user, round, responses, tc, inflight, peerCalls,
                 printed, turns, requests, acquired>>
  /\ UNCHANGED <<serverVars, todoVars>>

\* input() raises EOFError at the prompt: nothing catches it
InputRaises ==
  /\ pc = "input"
  /\ pc' = "raised"
  /\ exitCode' = 1
  /\ connection' = ExitStack(connection, "raise")
  /\ UNCHANGED <<messages, user, round, responses, tc, inflight, peerCalls,
                 printed, turns, requests, acquired>>
  /\ UNCHANGED <<serverVars, todoVars>>

\* user = input("> ").strip(); quit or exit breaks the while loop and
\* run_client returns; anything else is appended and the for loop starts
ReadInput ==
  /\ pc = "input"
  /\ \E line \in Lines :
       LET u == Strip(line) IN
       /\ user' = u
       /\ IF IsQuit(u)
          THEN /\ pc' = "exited"
               /\ exitCode' = 0
               /\ connection' = ExitStack(connection, "return")
               /\ UNCHANGED <<messages, round, responses, tc, inflight,
                              peerCalls, printed, turns, requests>>
          ELSE /\ turns < MaxTurns
               /\ turns' = turns + 1
               /\ messages' = AppendMessage(messages, UserMessage(u))
               /\ round' = 0
               /\ responses' = <<>>
               /\ peerCalls' = <<>>
               /\ printed' = <<>>
               /\ pc' = "model"
               /\ UNCHANGED <<tc, inflight, exitCode, requests, connection>>
  /\ UNCHANGED acquired
  /\ UNCHANGED <<serverVars, todoVars>>

\* a model call that also records the final answer in the transcript
ModelCallAppendsAnswer(pool, budget) ==
  /\ pc = "model"
  /\ \E m \in [content : FinalContents, tool_calls : {<<>>}] \cup
              [content : {None}, tool_calls : ToolCallLists(pool)] :
       /\ requests + Len(m.tool_calls) <= budget
       /\ requests' = requests + Len(m.tool_calls)
       /\ responses' = Append(responses, m)
       /\ messages' = AppendMessage(messages, AssistantMessage(m))
       /\ IF m.tool_calls # <<>>
          THEN /\ tc' = 1
               /\ pc' = "tool"
               /\ UNCHANGED printed
          ELSE /\ printed' = Append(printed, FinalText(m))
               /\ pc' = "input"
               /\ UNCHANGED tc
  /\ UNCHANGED <<user, round, inflight, peerCalls, exitCode, turns,
                 connection, acquired>>
  /\ UNCHANGED <<serverVars, todoVars>>

\* one chat.completions.create and the branch on tool_calls
ModelCall(pool, budget) ==
  /\ pc = "model"
  /\ \E m \in [content : FinalContents, tool_calls : {<<>>}] \cup
              [content : {None}, tool_calls : ToolCallLists(pool)] :
       /\ requests + Len(m.tool_calls) <= budget
       /\ requests' = requests + Len(m.tool_calls)
       /\ responses' = Append(responses, m)
       /\ IF m.tool_calls # <<>>
          THEN /\ messages' = AppendMessage(messages, AssistantMessage(m))
               /\ tc' = 1
               /\ pc' = "tool"
               /\ UNCHANGED printed
          ELSE /\ printed' = Append(printed, FinalText(m))
               /\ pc' = "input"
               /\ UNCHANGED <<messages, tc>>
  /\ UNCHANGED <<user, round, inflight, peerCalls, exitCode, turns,
                 connection, acquired>>
  /\ UNCHANGED <<serverVars, todoVars>>

\* chat.completions.create raises: nothing catches it
ModelRaises ==
  /\ pc = "model"
  /\ pc' = "raised"
  /\ exitCode' = 1
  /\ connection' = ExitStack(connection, "raise")
  /\ UNCHANGED <<messages, user, round, responses, tc, inflight, peerCalls,
                 printed, turns, requests, acquired>>
  /\ UNCHANGED <<serverVars, todoVars>>

\* the body of the for loop over tool_calls up to the await: parse the
\* arguments, send the call
CallTool ==
  /\ pc = "tool"
  /\ LET t == CurrentCall(tool_calls, tc) IN
       peerCalls' = Append(peerCalls,
          [name |-> t.function.name, args |-> ParseArgs(t.function.arguments)])
  /\ inflight' = inflight \cup {tc}
  /\ pc' = "await"
  /\ UNCHANGED <<messages, user, round, responses, tc, printed, exitCode,
                 turns, requests, connection, acquired>>
  /\ UNCHANGED <<serverVars, todoVars>>

\* call_tool returns: flatten, append the tool message, next request or
\* continue
ToolReturns(results) ==
  /\ pc = "await"
  /\ \E result \in results :
       messages' = AppendMessage(messages,
          ToolMessage(CurrentCall(tool_calls, tc), FlattenToolResult(result)))
  /\ inflight' = inflight \ {tc}
  /\ IF tc < Len(tool_calls)
     THEN /\ tc' = tc + 1
          /\ pc' = "tool"
          /\ UNCHANGED round
     ELSE /\ round' = round + 1
          /\ pc' = AfterRound(round)
          /\ UNCHANGED tc
  /\ UNCHANGED <<user, responses, peerCalls, printed, exitCode, turns,
                 requests, connection, acquired>>
  /\ UNCHANGED <<serverVars, todoVars>>

\* call_tool raises (peer gone, protocol error, arguments rejected):
\* nothing catches it
ToolRaises ==
  /\ pc = "await"
  /\ pc' = "raised"
  /\ exitCode' = 1
  /\ inflight' = {}
  /\ connection' = ExitStack(connection, "raise")
  /\ UNCHANGED <<messages, user, round, responses, tc, peerCalls, printed,
                 turns, requests, acquired>>
  /\ UNCHANGED <<serverVars, todoVars>>

Next ==
  \/ ReadInput
  \/ InputRaises
  \/ ModelCall(Requests, MaxRequests)
  \/ ModelRaises
  \/ CallTool
  \/ ToolReturns(Results)
  \/ ToolRaises

Spec == Init /\ [][Next]_vars

\* the same driver, the model drawing its requests from ArgRequests
NextArgs ==
  \/ ReadInput
  \/ InputRaises
  \/ ModelCall(ArgRequests, MaxArgRequests)
  \/ ModelRaises
  \/ CallTool
  \/ ToolReturns(ArgResults)
  \/ ToolRaises

SpecArgs == Init /\ [][NextArgs]_vars

\* the whole of run_client, from the call to the end of the process
NextSession ==
  \/ OpenConnection
  \/ OpenRaises
  \/ Discover
  \/ DiscoverRaises
  \/ ReadInput
  \/ InputRaises
  \/ ModelCall(Requests, MaxRequests)
  \/ ModelRaises
  \/ CallTool
  \/ ToolReturns(Results)
  \/ ToolRaises

SpecSession == InitSession /\ [][NextSession]_vars

(***************************************************************************)
(* Properties.                                                             *)
(***************************************************************************)
Last(q) == q[Len(q)]

\* the ids of the tool requests of an assistant message
RequestIds(m) == { m.tool_calls[q].id : q \in 1..Len(m.tool_calls) }

\* C1: in every user turn, whatever the model answers, the driver issues at
\* most 5 model calls before it awaits user input again.
C1_AtMostFiveModelCalls == modelCalls <= 5

\* a turn in which the model asked for tools on each of its five calls
C1_Witness ==
  /\ pc = "input"
  /\ modelCalls = 5
  /\ \A i \in 1..5 : responses[i].tool_calls # <<>>

\* C2: every tool message carries the id of one of the tool requests of the
\* nearest preceding assistant message, and only tool messages lie between
\* the two.
C2_ToolMessageRefersToAssistant ==
  \A i \in 1..Len(messages) :
    messages[i].role = "tool" =>
      \E j \in 1..(i - 1) :
        /\ messages[j].role = "assistant"
        /\ \A k \in (j + 1)..(i - 1) : messages[k].role = "tool"
        /\ messages[i].tool_call_id \in RequestIds(messages[j])

\* a transcript that ends with the two tool messages of a response that
\* carried two requests with different ids
C2_Witness ==
  /\ Len(messages) >= 4
  /\ messages[Len(messages)].role = "tool"
  /\ messages[Len(messages) - 1].role = "tool"
  /\ messages[Len(messages)].tool_call_id
       # messages[Len(messages) - 1].tool_call_id

\* requests of the current response whose call_tool was issued
Dispatched == IF pc = "await" THEN tc ELSE tc - 1
\* requests of the current response whose tool message is appended
Answered == tc - 1

\* the n messages after position j answer, in order, the first n requests
\* of the assistant message at j
AnswersInOrder(j, n) ==
  /\ j + n <= Len(messages)
  /\ \A k \in 1..n :
       /\ messages[j + k].role = "tool"
       /\ messages[j + k].tool_call_id = messages[j].tool_calls[k].id
       /\ messages[j + k].name = messages[j].tool_calls[k].function.name

\* C3: within a round the tool requests are dispatched one at a time in the
\* order the model emitted them, each call completing before the next is
\* issued, and at the next model call the transcript holds exactly one tool
\* message per request of every assistant message, in the same order.
C3_SequentialInOrder ==
  /\ Cardinality(inflight) <= 1
  /\ pc = "tool" => inflight = {}
  /\ pc \in {"tool", "await"} =>
       /\ Len(peerCalls) >= Dispatched
       /\ \A k \in 1..Dispatched :
            peerCalls[Len(peerCalls) - Dispatched + k].name
              = tool_calls[k].function.name
       /\ AnswersInOrder(Len(messages) - Answered, Answered)
  /\ pc \in {"model", "input"} =>
       \A j \in 1..Len(messages) :
         messages[j].role = "assistant" =>
           LET n == Len(messages[j].tool_calls) IN
           /\ AnswersInOrder(j, n)
           /\ j + n + 1 <= Len(messages) => messages[j + n + 1].role # "tool"

\* the next model call after a response that carried two different requests
C3_Witness ==
  /\ pc = "model"
  /\ Len(tool_calls) = 2
  /\ tool_calls[1].function.name # tool_calls[2].function.name
  /\ Len(peerCalls) >= 2

\* C4: a failed tool invocation never aborts the round or ends the session.
C4_ToolFailureNeverEndsSession == [][pc = "await" => pc' # "raised"]_vars

\* C5: whatever the arguments text of a tool request is, the arguments
\* passed to call_tool are a mapping.
C5_ArgsAlwaysMapping ==
  \A i \in 1..Len(peerCalls) : peerCalls[i].args.type = "dict"

\* {"_raw": text}
RawMapping(text) == PyDict({<<<<"_", "r", "a", "w">>, PyStr(text)>>})

\* the arguments text of the request the driver is about to dispatch
PendingArguments == tool_calls[tc].function.arguments

\* the dispatch of one request: call_tool is issued with these arguments
DispatchesWith(a) ==
  /\ pc' = "await"
  /\ peerCalls' = Append(peerCalls,
        [name |-> tool_calls[tc].function.name, args |-> a])

\* C6 as stated: when the arguments text is not parseable as JSON the
\* driver does not raise and calls the tool with {"_raw": text}.
C6_UnparseableGivesRaw ==
  [][(pc = "tool" /\ ~JsonLoads(PendingArguments).ok)
       => DispatchesWith(RawMapping(PendingArguments))]_vars

\* C6 amended: a non-empty arguments text that is not parseable as JSON is
\* passed as {"_raw": text} without raising; the empty text is passed as
\* the empty mapping.
C6_NonEmptyUnparseableGivesRaw ==
  [][/\ (pc = "tool" /\ PendingArguments # <<>>
           /\ ~JsonLoads(PendingArguments).ok)
         => DispatchesWith(RawMapping(PendingArguments))
     /\ (pc = "tool" /\ PendingArguments = <<>>)
         => DispatchesWith(PyDict({}))]_vars

\* call_tool awaited with the fallback mapping of a malformed text
C6_Witness ==
  /\ pc = "await"
  /\ PendingArguments = ArgsBad
  /\ Last(peerCalls).args = RawMapping(ArgsBad)

\* C7 as stated: the tool requests of the 5th response of a turn are not
\* dispatched.
C7_FifthResponseNotDispatched == ~(pc = "await" /\ modelCalls = 5)

\* C7 amended: when the 5th response of a turn requests tools, the driver
\* raises no error of its own, dispatches those requests and appends their
\* tool messages, then awaits user input: no 6th model call, nothing
\* printed for the turn.
C7_FifthResponseDispatchedThenStop ==
  (modelCalls = 5 /\ tool_calls # <<>>) =>
    /\ pc # "model"
    /\ pc \in {"input", "exited"} =>
         LET n == Len(tool_calls) IN
         /\ round = 5
         /\ printed = <<>>
         /\ inflight = {}
         /\ Len(peerCalls) >= n
         /\ \A k \in 1..n :
              peerCalls[Len(peerCalls) - n + k].name
                = tool_calls[k].function.name
         /\ Len(messages) > n
         /\ messages[Len(messages) - n].role = "assistant"
         /\ AnswersInOrder(Len(messages) - n, n)
    /\ pc = "input" => exitCode = -1

\* back at the prompt after a 5th response that requested tools
C7_Witness ==
  /\ pc = "input"
  /\ round = 5
  /\ Len(tool_calls) >= 1
  /\ Last(messages).role = "tool"
  /\ printed = <<>>

IsPrefix(p, q) == Len(p) <= Len(q) /\ SubSeq(q, 1, Len(p)) = p

\* C8: the transcript starts as exactly one system message and afterwards
\* changes only by appending.
C8_AppendOnly ==
  /\ Len(messages) = 1 /\ messages[1].role = "system"
  /\ [][IsPrefix(messages, messages')]_vars

\* a transcript grown over two user turns, with tool rounds
C8_Witness ==
  /\ turns = 2
  /\ Len(messages) >= 6
  /\ Last(messages).role = "tool"

\* a turn whose first response requests exactly one tool, X, and whose
\* second response is plain text
OneToolThenText ==
  /\ Len(responses) >= 2
  /\ Len(responses[1].tool_calls) = 1
  /\ responses[1].tool_calls[1].function.name = "X"
  /\ responses[2].tool_calls = <<>>
  /\ ~responses[2].content.isNone

\* two model calls, one invocation of X, the transcript ends with the
\* user message, the assistant message and one tool message for X
OneToolTurn ==
  /\ modelCalls = 2
  /\ Len(peerCalls) = 1
  /\ peerCalls[1].name = "X"
  /\ Len(messages) >= 4
  /\ messages[Len(messages) - 2].role = "user"
  /\ messages[Len(messages) - 1].role = "assistant"
  /\ Last(messages).role = "tool"
  /\ Last(messages).name = "X"
  /\ Last(messages).tool_call_id = responses[1].tool_calls[1].id

\* C9 as stated: in such a turn the text printed is T.
C9_PrintsTextVerbatim ==
  OneToolThenText =>
    /\ OneToolTurn
    /\ printed = <<responses[2].content.text>>

\* C9 amended: in such a turn the driver makes exactly two model calls and
\* one invocation of X, the transcript ends with one tool message for X,
\* and the text printed is T trimmed of surrounding whitespace.
C9_PrintsTextTrimmed ==
  OneToolThenText =>
    /\ OneToolTurn
    /\ printed = <<Strip(responses[2].content.text)>>

\* such a turn, answered with text in surrounding whitespace
C9_Witness ==
  /\ OneToolThenText
  /\ responses[2].content.text = <<" ", "d", "\n">>
  /\ printed = << <<"d">> >>

\* quit and exit in every letter casing
QuitCasings ==
  { <<a, b, c, d>> : a \in {"q", "Q"}, b \in {"u", "U"},
                     c \in {"i", "I"}, d \in {"t", "T"} } \cup
  { <<a, b, c, d>> : a \in {"e", "E"}, b \in {"x", "X"},
                     c \in {"i", "I"}, d \in {"t", "T"} }

\* C10: when the user enters quit or exit in any letter casing, the session
\* ends with exit code 0 and no pending tool dispatch; the input is not
\* appended, and no model call or tool invocation follows.
C10_QuitEndsSession ==
  [][/\ pc # "exited"
     /\ (pc = "input" /\ user' \in QuitCasings) =>
          /\ pc' = "exited"
          /\ exitCode' = 0
          /\ messages' = messages
          /\ responses' = responses
          /\ peerCalls' = peerCalls
          /\ inflight' = {}]_vars

\* the session ended by a mixed-case quit after a turn that used tools
C10_Witness ==
  /\ pc = "exited"
  /\ user = <<"Q", "u", "I", "T">>
  /\ peerCalls # <<>>

(***************************************************************************)
(* _flatten_tool_result called on its own.                                 *)
(***************************************************************************)
\* blocks in one payload
MaxBlocks == 3

\* the content blocks of the payloads: texts, the empty text, an opaque block
Blocks ==
  { TextBlock(<<"a">>), TextBlock(<<"b">>), TextBlock(<<>>),
    OpaqueBlock("image") }

\* result payloads of 0..MaxBlocks blocks
Payloads ==
  [content : UNION { [1..n -> Blocks] : n \in 0..MaxBlocks },
   isError : {FALSE}]

InitFlatten ==
  /\ DriverAtPrompt
  /\ TodoEmpty
  /\ events = <<>>
  /\ call \in [fn : {"flatten"}, arg : Payloads, done : {FALSE}]

\* tool_text = _flatten_tool_result(result)
Flatten ==
  /\ call.fn = "flatten"
  /\ ~call.done
  /\ call' = [fn |-> "flatten", arg |-> call.arg, done |-> TRUE,
              ret |-> FlattenToolResult(call.arg)]
  /\ UNCHANGED <<events, driverVars, todoVars>>

NextFlatten == Flatten

SpecFlatten == InitFlatten /\ [][NextFlatten]_vars

(***************************************************************************)
(* _convert_mcp_tools_to_groq called on its own.  A descriptor is          *)
(* [name, description, inputSchema, input_schema]; an attribute that is    *)
(* missing or None is None, a schema is a dict.                            *)
(***************************************************************************)
\* descriptors in one discovery
MaxTools == 2

\* "No description"
NoDescription ==
  <<"N", "o", " ", "d", "e", "s", "c", "r", "i", "p", "t", "i", "o", "n">>

\* {"type": "object"}
ObjectSchema ==
  PyDict({<< <<"t", "y", "p", "e">>, PyStr(<<"o", "b", "j", "e", "c", "t">>) >>})

\* a schema with one property, and another one
SchemaA == PyDict({<< <<"a">>, PyInt(1) >>})
SchemaB == PyDict({<< <<"b">>, PyInt(1) >>})

\* the descriptors list_tools can return
Descriptors ==
  [name : {"X", "Y"},
   description : {None, Some(<<>>), Some(<<"d">>)},
   inputSchema : {None, PyDict({}), SchemaA},
   input_schema : {None, SchemaB}]

\* a description without the placeholder
DescriptionOrEmpty(x) == IF x = None THEN <<>> ELSE x.text

\* t.description or "No description"
DescriptionOr(x) ==
  IF x = None THEN NoDescription
  ELSE IF x.text = <<>> THEN NoDescription ELSE x.text

\* bool(x) of an Optional[dict]
TruthyDict(x) == IF x = None THEN FALSE ELSE x.items # {}

\* getattr(t, "inputSchema", None) or getattr(t, "input_schema", None)
\* or {"type": "object"}
ParamsOf(t) ==
  IF TruthyDict(t.inputSchema) THEN t.inputSchema
  ELSE IF TruthyDict(t.input_schema) THEN t.input_schema
  ELSE ObjectSchema

\* _convert_mcp_tools_to_groq(tools)
ConvertMcpToolsToGroq(tools) ==
  [i \in 1..Len(tools) |->
     [type |-> "function",
      function |-> [name |-> tools[i].name,
                    description |-> DescriptionOr(tools[i].description),
                    parameters |-> ParamsOf(tools[i])]]]

InitConvert ==
  /\ DriverAtPrompt
  /\ TodoEmpty
  /\ events = <<>>
  /\ call \in [fn : {"convert"},
               arg : UNION { [1..n -> Descriptors] : n \in 0..MaxTools },
               done : {FALSE}]

\* groq_tools = _convert_mcp_tools_to_groq(discovered.tools)
Convert ==
  /\ call.fn = "convert"
  /\ ~call.done
  /\ call' = [fn |-> "convert", arg |-> call.arg, done |-> TRUE,
              ret |-> ConvertMcpToolsToGroq(call.arg)]
  /\ UNCHANGED <<events, driverVars, todoVars>>

NextConvert == Convert

SpecConvert == InitConvert /\ [][NextConvert]_vars

(***************************************************************************)
(* gcal_mcp_server.py: create_event.  A parsed time is [ok, t, aware,      *)
(* off]: ok = FALSE where dateutil raises, t the wall-clock time, off the  *)
(* UTC offset of an aware datetime.                                        *)
(***************************************************************************)
\* events inserted into the calendar
MaxEvents == 2

\* what dateparser.parse returns for start and end
ParsedTimes ==
  [ok : {TRUE}, t : {10, 11}, aware : {FALSE}, off : {0}] \cup
  [ok : {TRUE}, t : {10, 11}, aware : {TRUE}, off : {0, 1}] \cup
  {[ok |-> FALSE]}

\* the instant two datetimes of the same awareness are compared by
Instant(dt) == dt.t - dt.off

\* a check that lets end = start through
EndBeforeStart(end_dt, start_dt) == Instant(end_dt) < Instant(start_dt)

\* end_dt <= start_dt
EndNotAfterStart(end_dt, start_dt) == Instant(end_dt) <= Instant(start_dt)

\* create_event(title, start, end, ...): the credentials, the two parses,
\* the comparison (TypeError between a naive and an aware datetime), the
\* insert
create_event ==
  /\ \E start_dt \in ParsedTimes, end_dt \in ParsedTimes,
        svc \in {"ok", "raises"}, insert \in {"ok", "raises"} :
       LET error ==
             IF svc = "raises" THEN "RuntimeError"
             ELSE IF ~start_dt.ok \/ ~end_dt.ok THEN "ParserError"
             ELSE IF start_dt.aware # end_dt.aware THEN "TypeError"
             ELSE IF EndNotAfterStart(end_dt, start_dt) THEN "ValueError"
             ELSE IF insert = "raises" THEN "HttpError"
             ELSE "none" IN
       /\ call' = [fn |-> "create_event",
                   arg |-> [start |-> start_dt, end |-> end_dt],
                   done |-> TRUE, ret |-> [error |-> error]]
       /\ IF error = "none"
          THEN /\ Len(events) < MaxEvents
               /\ events' = Append(events, [start |-> start_dt, end |-> end_dt])
          ELSE UNCHANGED events
  /\ UNCHANGED <<driverVars, todoVars>>

NextCalendar == create_event

SpecCalendar == Init /\ [][NextCalendar]_vars

(***************************************************************************)
(* main.py: the to-do API.  TASKS maps a task id to a Task; a Task is      *)
(* [id, title, description, done, subtasks], a Subtask is                  *)
(* [id, title, allocated_time, done].                                      *)
(***************************************************************************)
\* tasks created in one run
MaxTasks == 2
\* subtasks created in one run
MaxSubtasks == 2
\* subtasks in the payload of one create_task
MaxPayloadSubtasks == 2

\* Optional[bool] with a value
SomeBool(b) == [isNone |-> FALSE, val |-> b]

\* SubtaskCreate payloads
SubtaskCreates ==
  [title : {"s"}, allocated_time : {5}, done : BOOLEAN]

\* TaskCreate payloads
TaskCreates ==
  [title : {"t"}, description : {None},
   subtasks : UNION { [1..n -> SubtaskCreates] : n \in 0..MaxPayloadSubtasks }]

\* SubtaskUpdate payloads
SubtaskUpdates ==
  [title : {None, Some("u")}, done : {None, SomeBool(TRUE), SomeBool(FALSE)}]

\* ids a request can name: those handed out and one more
TaskIds == 1..(MaxTasks + 1)
SubtaskIds == 1..(MaxSubtasks + 1)

\* a counter that is returned without being advanced
NextIdNoIncrement(seq) == seq

\* _next_task_id, _next_subtask_id: the counter after the call, which is
\* also the id returned
NextId(seq) == seq + 1

\* an all() that forgets the empty list
AllDoneVacuous(subs) == \A i \in 1..Len(subs) : subs[i].done

\* len(subs) > 0 and all(s.done for s in subs)
AllDone(subs) == Len(subs) > 0 /\ \A i \in 1..Len(subs) : subs[i].done

\* Subtask(id=..., **st.model_dump())
MakeSubtask(id, st) ==
  [id |-> id, title |-> st.title, allocated_time |-> st.allocated_time,
   done |-> st.done]

RECURSIVE BuildSubtasks(_, _, _)
\* the list comprehension of create_task: one _next_subtask_id per payload
\* subtask, in payload order; returns the list and the counter
BuildSubtasks(payloads, seq, acc) ==
  IF payloads = <<>> THEN [subs |-> acc, seq |-> seq]
  ELSE BuildSubtasks(Tail(payloads), NextId(seq),
                     Append(acc, MakeSubtask(NextId(seq), Head(payloads))))

\* a lookup that falls back to the first subtask
FindSubtaskOrFirst(subs, sid) ==
  IF \E i \in 1..Len(subs) : subs[i].id = sid
  THEN CHOOSE i \in 1..Len(subs) :
         subs[i].id = sid /\ \A j \in 1..(i - 1) : subs[j].id # sid
  ELSE IF subs = <<>> THEN 0 ELSE 1

\* next((s for s in task.subtasks if s.id == subtask_id), None): the
\* position of the first match, 0 for None
FindSubtask(subs, sid) ==
  IF \E i \in 1..Len(subs) : subs[i].id = sid
  THEN CHOOSE i \in 1..Len(subs) :
         subs[i].id = sid /\ \A j \in 1..(i - 1) : subs[j].id # sid
  ELSE 0

\* an update that writes done even when the request omits it
ApplyUpdateAlwaysDone(sub, payload) ==
  [sub EXCEPT
     !.title = IF payload.title.isNone THEN @ ELSE payload.title.text,
     !.done = IF payload.done.isNone THEN FALSE ELSE payload.done.val]

\* the two  if payload.x is not None  assignments of update_subtask
ApplyUpdate(sub, payload) ==
  [sub EXCEPT
     !.title = IF payload.title.isNone THEN @ ELSE payload.title.text,
     !.done = IF payload.done.isNone THEN @ ELSE payload.done.val]

\* TASKS[task_id] = task
Store(tasks, task_id, task) ==
  [k \in DOMAIN tasks \cup {task_id} |->
     IF k = task_id THEN task ELSE tasks[k]]

\* POST /tasks
create_task ==
  /\ task_id_seq < MaxTasks
  /\ \E payload \in TaskCreates :
       LET task_id == NextId(task_id_seq)
           built == BuildSubtasks(payload.subtasks, subtask_id_seq, <<>>)
           task == [id |-> task_id, title |-> payload.title,
                    description |-> payload.description,
                    subtasks |-> built.subs, done |-> AllDone(built.subs)] IN
       /\ subtask_id_seq + Len(payload.subtasks) <= MaxSubtasks
       /\ task_id_seq' = task_id
       /\ subtask_id_seq' = built.seq
       /\ TASKS' = Store(TASKS, task_id, task)
       /\ response' = [op |-> "create_task", status |-> 201]
  /\ UNCHANGED <<driverVars, serverVars>>

\* POST /tasks/{task_id}/subtasks
add_subtask ==
  /\ \E task_id \in TaskIds, payload \in SubtaskCreates :
       IF task_id \notin DOMAIN TASKS
       THEN /\ response' = [op |-> "add_subtask", status |-> 404,
                            task_id |-> task_id]
            /\ UNCHANGED <<TASKS, task_id_seq, subtask_id_seq>>
       ELSE LET sub == MakeSubtask(NextId(subtask_id_seq), payload)
                subs == Append(TASKS[task_id].subtasks, sub)
                task == [TASKS[task_id] EXCEPT !.subtasks = subs,
                                               !.done = AllDone(subs)] IN
            /\ subtask_id_seq < MaxSubtasks
            /\ subtask_id_seq' = NextId(subtask_id_seq)
            /\ TASKS' = Store(TASKS, task_id, task)
            /\ response' = [op |-> "add_subtask", status |-> 201,
                            task_id |-> task_id]
            /\ UNCHANGED task_id_seq
  /\ UNCHANGED <<driverVars, serverVars>>

\* PATCH /tasks/{task_id}/subtasks/{subtask_id}
update_subtask ==
  /\ \E task_id \in TaskIds, subtask_id \in SubtaskIds,
        payload \in SubtaskUpdates :
       LET answer(status) ==
             [op |-> "update_subtask", status |-> status,
              task_id |-> task_id, subtask_id |-> subtask_id,
              payload |-> payload] IN
       IF task_id \notin DOMAIN TASKS
       THEN /\ response' = answer(404)
            /\ UNCHANGED TASKS
       ELSE LET i == FindSubtask(TASKS[task_id].subtasks, subtask_id) IN
            IF i = 0
            THEN /\ response' = answer(404)
                 /\ UNCHANGED TASKS
            ELSE LET subs == [TASKS[task_id].subtasks EXCEPT
                                ![i] = ApplyUpdate(@, payload)]
                     task == [TASKS[task_id] EXCEPT !.subtasks = subs,
                                                    !.done = AllDone(subs)] IN
                 /\ TASKS' = Store(TASKS, task_id, task)
                 /\ response' = answer(200)
  /\ UNCHANGED <<task_id_seq, subtask_id_seq>>
  /\ UNCHANGED <<driverVars, serverVars>>

NextTodo ==
  \/ create_task
  \/ add_subtask
  \/ update_subtask

SpecTodo == Init /\ [][NextTodo]_vars

\* C11: the tool peer connection is acquired exactly once at session start,
\* held while the session runs, and released on every way the session can
\* end: quit, a failure during discovery, a failed model call, a failed
\* tool invocation.
C11_ConnectionReleasedOnEveryExit ==
  /\ acquired <= 1
  /\ pc \in {"discover", "input", "model", "tool", "await"} =>
       (connection = "held" /\ acquired = 1)
  /\ pc \in {"exited", "raised"} => connection # "held"
  /\ pc = "exited" => (connection = "released" /\ acquired = 1)

\* a session ended by an exception after it had called tools
C11_Witness ==
  /\ pc = "raised"
  /\ peerCalls # <<>>
  /\ acquired = 1
  /\ connection = "released"

\* C12: every stored task has done = true exactly when it has at least one
\* subtask and all of its subtasks are done.
C12_DoneIffAllSubtasksDone ==
  \A k \in DOMAIN TASKS :
    TASKS[k].done <=>
      /\ TASKS[k].subtasks # <<>>
      /\ \A i \in 1..Len(TASKS[k].subtasks) : TASKS[k].subtasks[i].done

\* an update_subtask completed a task of two subtasks
C12_Witness ==
  /\ response.op = "update_subtask"
  /\ response.status = 200
  /\ \E k \in DOMAIN TASKS :
       /\ k = response.task_id
       /\ TASKS[k].done
       /\ Len(TASKS[k].subtasks) = 2

\* the ids of the subtasks of a store
SubtaskIdsOf(tasks) ==
  UNION { { tasks[k].subtasks[i].id : i \in 1..Len(tasks[k].subtasks) } :
            k \in DOMAIN tasks }

\* the number of subtasks of a store
RECURSIVE CountSubtasks(_, _)
CountSubtasks(tasks, keys) ==
  IF keys = {} THEN 0
  ELSE LET k == CHOOSE x \in keys : TRUE IN
       Len(tasks[k].subtasks) + CountSubtasks(tasks, keys \ {k})

\* one change of the store: the keys, the new task id, the subtask ids
IdsAfterStoreChange ==
  /\ \A k \in DOMAIN TASKS' : TASKS'[k].id = k
  /\ DOMAIN TASKS' = 1..Cardinality(DOMAIN TASKS')
  \* a new task gets the next id, above every id handed out before
  /\ \A k \in DOMAIN TASKS' \ DOMAIN TASKS :
       /\ k = Cardinality(DOMAIN TASKS) + 1
       /\ \A j \in DOMAIN TASKS : j < k
  \* no two subtasks of the store share an id
  /\ Cardinality(SubtaskIdsOf(TASKS')) = CountSubtasks(TASKS', DOMAIN TASKS')
  \* subtasks are appended, and a new subtask gets an id above every
  \* subtask id of the store and above the new subtasks before it
  /\ \A k \in DOMAIN TASKS' :
       LET new == TASKS'[k].subtasks
           old == IF k \in DOMAIN TASKS THEN TASKS[k].subtasks ELSE <<>> IN
       /\ Len(old) <= Len(new)
       /\ \A i \in 1..Len(old) : new[i].id = old[i].id
       /\ \A i \in (Len(old) + 1)..Len(new) :
            /\ new[i].id >= 1
            /\ \A x \in SubtaskIdsOf(TASKS) : x < new[i].id
            /\ \A j \in (Len(old) + 1)..(i - 1) : new[j].id < new[i].id

\* C18: task ids are pairwise distinct and handed out in increasing order
\* from 1, subtask ids are pairwise distinct across all tasks and
\* increasing in creation order, and each task is stored under its own id.
C18_IdsDistinctAndIncreasing ==
  [][TASKS' # TASKS => IdsAfterStoreChange]_vars

\* two tasks, each with a subtask
C18_Witness ==
  /\ DOMAIN TASKS = {1, 2}
  /\ TASKS[1].subtasks # <<>>
  /\ TASKS[2].subtasks # <<>>

\* the request of the last answer named a task that is not stored, or a
\* subtask that is not among the subtasks of its task
NamesUnknown(tasks, r) ==
  \/ /\ r.op \in {"add_subtask", "update_subtask"}
     /\ r.task_id \notin DOMAIN tasks
  \/ /\ r.op = "update_subtask"
     /\ r.task_id \in DOMAIN tasks
     /\ \A i \in 1..Len(tasks[r.task_id].subtasks) :
          tasks[r.task_id].subtasks[i].id # r.subtask_id

\* C19: add_subtask or update_subtask naming an unknown task, and
\* update_subtask naming an unknown subtask, is answered with 404 and
\* leaves the store and both counters unchanged.
C19_UnknownIdsGive404 ==
  [][NamesUnknown(TASKS, response') =>
       /\ response'.status = 404
       /\ TASKS' = TASKS
       /\ task_id_seq' = task_id_seq
       /\ subtask_id_seq' = subtask_id_seq]_vars

\* a 404 for a subtask id that belongs to another task
C19_Witness ==
  /\ response.op = "update_subtask"
  /\ response.status = 404
  /\ response.task_id \in DOMAIN TASKS
  /\ response.subtask_id \in SubtaskIdsOf(TASKS)

\* C20: a successful update_subtask changes only the title and/or done flag
\* of the addressed subtask (an omitted field keeps its value) and the done
\* flag of its parent task; everything else stays unchanged.
C20_UpdateTouchesOnlyTheSubtask ==
  [][(response'.op = "update_subtask" /\ response'.status = 200) =>
       LET r == response' IN
       /\ task_id_seq' = task_id_seq
       /\ subtask_id_seq' = subtask_id_seq
       /\ DOMAIN TASKS' = DOMAIN TASKS
       /\ r.task_id \in DOMAIN TASKS
       /\ \A k \in DOMAIN TASKS \ {r.task_id} : TASKS'[k] = TASKS[k]
       /\ LET old == TASKS[r.task_id]
              new == TASKS'[r.task_id] IN
          /\ new.id = old.id
          /\ new.title = old.title
          /\ new.description = old.description
          /\ Len(new.subtasks) = Len(old.subtasks)
          /\ \A i \in 1..Len(old.subtasks) :
               LET o == old.subtasks[i]
                   n == new.subtasks[i] IN
               /\ n.id = o.id
               /\ n.allocated_time = o.allocated_time
               /\ IF o.id = r.subtask_id
                  THEN /\ n.title = IF r.payload.title.isNone THEN o.title
                                    ELSE r.payload.title.text
                       /\ n.done = IF r.payload.done.isNone THEN o.done
                                   ELSE r.payload.done.val
                  ELSE n = o]_vars

\* an update that omitted done, on a done subtask, with two tasks stored
C20_Witness ==
  /\ response.op = "update_subtask"
  /\ response.status = 200
  /\ response.payload.done.isNone
  /\ ~response.payload.title.isNone
  /\ DOMAIN TASKS = {1, 2}
  /\ \E i \in 1..Len(TASKS[response.task_id].subtasks) :
       /\ TASKS[response.task_id].subtasks[i].id = response.subtask_id
       /\ TASKS[response.task_id].subtasks[i].done

\* a flatten call has returned
Flattened == call.fn = "flatten" /\ call.done

\* every block of the payload is textual, and there is at least one
AllTextual(result) ==
  /\ result.content # <<>>
  /\ \A i \in 1..Len(result.content) : result.content[i].type = "text"

\* no block of the payload is textual
NoTextual(result) ==
  \A i \in 1..Len(result.content) : result.content[i].type # "text"

RECURSIVE NewlineSeparated(_)
\* t1, newline, t2, ..., newline, tn
NewlineSeparated(ts) ==
  IF ts = <<>> THEN <<>>
  ELSE IF Len(ts) = 1 THEN ts[1]
  ELSE NewlineSeparated(SubSeq(ts, 1, Len(ts) - 1)) \o <<"\n">> \o ts[Len(ts)]

\* the texts of the blocks of a payload, in payload order
TextsOf(result) == [i \in 1..Len(result.content) |-> result.content[i].text]

\* C13 as stated: for a payload whose blocks are all textual, with any
\* texts t1..tn, the result is t1, newline, t2, ..., newline, tn.
C13_JoinsAllTexts ==
  (Flattened /\ AllTextual(call.arg)) =>
    call.ret = NewlineSeparated(TextsOf(call.arg))

\* C13 amended: for a payload whose blocks are all textual the result is
\* the non-empty texts, in payload order, with a newline between
\* consecutive ones; empty texts are dropped.
C13_JoinsNonEmptyTexts ==
  (Flattened /\ AllTextual(call.arg)) =>
    call.ret = NewlineSeparated(
                 SelectSeq(TextsOf(call.arg), LAMBDA t : t # <<>>))

\* the payload ["a", "", "b"] flattened to a, newline, b
C13_Witness ==
  /\ Flattened
  /\ AllTextual(call.arg)
  /\ TextsOf(call.arg) = << <<"a">>, <<>>, <<"b">> >>
  /\ call.ret = <<"a", "\n", "b">>

\* C14 as stated: a payload with no textual block (empty, or only opaque
\* blocks) flattens to the string rendering of the whole payload, which is
\* not empty.
C14_NoTextGivesPayloadRendering ==
  (Flattened /\ NoTextual(call.arg)) =>
    (call.ret = StrResult(call.arg) /\ call.ret # <<>>)

\* C14 amended: the empty payload flattens to the string rendering of the
\* whole payload; a payload of opaque blocks only flattens to the string
\* renderings of its blocks separated by newlines; both are non-empty.
C14_NoTextGivesRenderings ==
  (Flattened /\ NoTextual(call.arg)) =>
    /\ call.ret # <<>>
    /\ call.arg.content = <<>> => call.ret = StrResult(call.arg)
    /\ call.arg.content # <<>> =>
         call.ret = NewlineSeparated(
           [i \in 1..Len(call.arg.content) |-> StrBlock(call.arg.content[i])])

\* the empty payload flattened
C14_Witness ==
  /\ Flattened
  /\ call.arg.content = <<>>
  /\ call.ret = StrResult(call.arg)

\* a conversion has returned
Converted == call.fn = "convert" /\ call.done

\* one entry per descriptor, in order, with the descriptor's name
SameToolsInOrder ==
  /\ Len(call.ret) = Len(call.arg)
  /\ \A i \in 1..Len(call.arg) :
       /\ call.ret[i].type = "function"
       /\ call.ret[i].function.name = call.arg[i].name

\* C15 as stated: one entry per descriptor in order with the same name; a
\* missing description gets the placeholder, a missing schema the
\* empty-object schema, a present description or schema is passed through.
C15_PresentPassedThrough ==
  Converted =>
    /\ SameToolsInOrder
    /\ \A i \in 1..Len(call.arg) :
         LET t == call.arg[i]
             f == call.ret[i].function IN
         /\ t.description = None => f.description = NoDescription
         /\ t.description # None => f.description = t.description.text
         /\ (t.inputSchema = None /\ t.input_schema = None) =>
              f.parameters = ObjectSchema
         /\ t.inputSchema # None => f.parameters = t.inputSchema
         /\ (t.inputSchema = None /\ t.input_schema # None) =>
              f.parameters = t.input_schema

\* C15 amended: one entry per descriptor in order with the same name; a
\* missing or empty description gets the placeholder, a missing or empty
\* schema the empty-object schema, a present non-empty description or
\* schema is passed through unchanged.
C15_NonEmptyPassedThrough ==
  Converted =>
    /\ SameToolsInOrder
    /\ \A i \in 1..Len(call.arg) :
         LET t == call.arg[i]
             f == call.ret[i].function
             empty(x) == x = None \/ x = PyDict({}) IN
         /\ (t.description = None \/ t.description = Some(<<>>)) =>
              f.description = NoDescription
         /\ (t.description # None /\ t.description # Some(<<>>)) =>
              f.description = t.description.text
         /\ (empty(t.inputSchema) /\ empty(t.input_schema)) =>
              f.parameters = ObjectSchema
         /\ ~empty(t.inputSchema) => f.parameters = t.inputSchema
         /\ (empty(t.inputSchema) /\ ~empty(t.input_schema)) =>
              f.parameters = t.input_schema

\* two descriptors converted: one without description and schema, one
\* with both
C15_Witness ==
  /\ Converted
  /\ Len(call.arg) = 2
  /\ call.arg[1].description = None
  /\ call.arg[1].inputSchema = None
  /\ call.arg[1].input_schema = None
  /\ call.ret[1].function.description = NoDescription
  /\ call.ret[1].function.parameters = ObjectSchema
  /\ call.arg[2].description = Some(<<"d">>)
  /\ call.ret[2].function.description = <<"d">>
  /\ call.ret[2].function.parameters = SchemaA

\* the parsed end is equal to or earlier than the parsed start
EndEqualOrEarlier(arg) ==
  /\ arg.start.ok
  /\ arg.end.ok
  /\ arg.start.aware = arg.end.aware
  /\ arg.end.t - arg.end.off =< arg.start.t - arg.start.off

\* C16: when the parsed end is equal to or earlier than the parsed start,
\* create_event fails with an error and no event is inserted.
C16_EndMustBeAfterStart ==
  [][(call'.fn = "create_event" /\ EndEqualOrEarlier(call'.arg)) =>
       /\ call'.ret.error # "none"
       /\ events' = events]_vars

\* a call with end = start refused, after an event was inserted
C16_Witness ==
  /\ call.fn = "create_event"
  /\ call.arg.start.ok
  /\ call.arg.end = call.arg.start
  /\ call.ret.error = "ValueError"
  /\ events # <<>>

\* every assistant message of a transcript carries a tool request
AssistantsCarryRequests(msgs) ==
  \A i \in 1..Len(msgs) :
    msgs[i].role = "assistant" => Len(msgs[i].tool_calls) >= 1

\* the step in which the first response of a turn is a plain text answer
AnsweredWithoutTools ==
  /\ pc = "model"
  /\ responses = <<>>
  /\ Len(responses') = 1
  /\ responses'[1].tool_calls = <<>>

\* C17: every assistant message in the transcript carries at least one
\* tool request; the final text answer of a turn is printed but never
\* appended, so a turn answered without tool use grows the transcript by
\* exactly the one user message and the next model call does not see the
\* previous answer.
C17_FinalAnswerNotAppended ==
  [][/\ AssistantsCarryRequests(messages')
     /\ (pc = "input" /\ pc' = "model") =>
          messages' = Append(messages, UserMessage(user'))
     /\ AnsweredWithoutTools =>
          /\ printed' = Append(printed, FinalText(responses'[1]))
          /\ messages' = messages
          /\ Last(messages) = UserMessage(user)
          /\ pc' = "input"]_vars

\* the second model call of a session whose first turn was answered
\* without tools: the transcript is the system message and the two user
\* messages
C17_Witness ==
  /\ pc = "model"
  /\ turns = 2
  /\ requests = 0
  /\ Len(messages) = 3
  /\ messages[2].role = "user"
  /\ messages[3].role = "user"

====
